---- MODULE Spec2Model ----
(***************************************************************************)
(* Model of src/layout/actions.rs: LayoutAction and LayoutActionList, the  *)
(* list that optimizes layouting actions while they are added.             *)
(***************************************************************************)
EXTENDS Integers, Sequences, FiniteSets, TLC

(* ------------------------------ bounds -------------------------------- *)

\* Budget of one run of Spec: every call costs one unit, add_layout one
\* more per action of the layout it adds.
MaxCost == 4
\* Longest action sequence of a layout handed to add_layout.
MaxLayoutLen == 2
\* Budget of one run of SpecText, counted the same way.
MaxRun == 5

(* --------------------------- values (size.rs) -------------------------- *)

\* A Size is a floating-point length; the model counts it in whole units, on
\* which the list only ever adds (origin + position) and tests equality. The
\* serializer reads a length in points through to_pt(): there are PtScale
\* units to the point, a power of two, so that every length of the model is
\* a binary fraction that a float holds exactly, sums included, and has an
\* exact decimal expansion of at most five decimal digits.
PtScale == 2 ^ 5

\* A usize (64 bits on this build) is four limbs of 16 bits, the most
\* significant first.
Limb == 2 ^ 16
Usize(n) == <<0, 0, n \div Limb, n % Limb>>

\* std::usize::MAX
UsizeMax == <<Limb - 1, Limb - 1, Limb - 1, Limb - 1>>

\* Size2D::zero()
Zero == <<0, 0>>

\* Size2D + Size2D
Plus(a, b) == <<a[1] + b[1], a[2] + b[2]>>

\* Option<T>
None == <<>>
Some(v) == <<v>>

(* ----------------------------- LayoutAction ---------------------------- *)

NoFont == <<Usize(0), 0>>

MoveAbsolute(p) ==
    [kind |-> "MoveAbsolute", pos |-> p, size |-> Zero, font |-> NoFont, text |-> ""]
SetFont(f) ==
    [kind |-> "SetFont", pos |-> Zero, size |-> Zero, font |-> f, text |-> ""]
WriteText(t) ==
    [kind |-> "WriteText", pos |-> Zero, size |-> Zero, font |-> NoFont, text |-> t]
DebugBox(p, d) ==
    [kind |-> "DebugBox", pos |-> p, size |-> d, font |-> NoFont, text |-> ""]

\* super::Layout, as far as add_layout reads it
Layout(acts, dims, dbg) ==
    [actions |-> acts, dimensions |-> dims, debug_render |-> dbg]

(* ------------------------ LayoutAction::serialize ---------------------- *)

\* the decimal digits of n, zero-padded to the width w
RECURSIVE Digits(_, _)
Digits(n, w) == IF w = 0 THEN "" ELSE Digits(n \div 10, w - 1) \o ToString(n % 10)

\* the same without trailing zeros (n # 0)
RECURSIVE Trimmed(_, _)
Trimmed(n, w) == IF n % 10 = 0 THEN Trimmed(n \div 10, w - 1) ELSE Digits(n, w)

\* the magnitude and the sign of a length as the formatter writes them
Magnitude(v) == IF v < 0 THEN 0 - v ELSE v
Sign(v) == IF v < 0 THEN "-" ELSE ""

\* the exact value of a magnitude of m units, in 1/100000 of a point
FifthDecimals(m) == m * ((10 ^ 5) \div PtScale)

\* "{:.4}" of the length v in points: the exact value rounded to four
\* decimal digits, a tie to the even digit
Fixed4(v) ==
    LET e == FifthDecimals(Magnitude(v))
        q == e \div 10
        d == e % 10
        r == IF d > 5 \/ (d = 5 /\ q % 2 = 1) THEN q + 1 ELSE q
    IN Sign(v) \o ToString(r \div 10000) \o "." \o Digits(r % 10000, 4)

\* "{}" of the length v in points: the shortest text that reads back as v,
\* which is the exact decimal expansion for the binary fractions of the model
\* (below 1024pt as an f32, further as an f64)
Shortest(v) ==
    LET e == FifthDecimals(Magnitude(v))
    IN IF e % (10 ^ 5) = 0 THEN Sign(v) \o ToString(e \div (10 ^ 5))
       ELSE Sign(v) \o ToString(e \div (10 ^ 5)) \o "." \o Trimmed(e % (10 ^ 5), 5)

\* the quotient and the remainder of a usize divided by ten
DivTen(u) ==
    LET t1 == u[1]
        t2 == (t1 % 10) * Limb + u[2]
        t3 == (t2 % 10) * Limb + u[3]
        t4 == (t3 % 10) * Limb + u[4]
    IN [q |-> <<t1 \div 10, t2 \div 10, t3 \div 10, t4 \div 10>>, r |-> t4 % 10]

\* "{}" of a usize: its decimal digits
RECURSIVE DecimalDigits(_)
DecimalDigits(u) ==
    IF u = Usize(0) THEN ""
    ELSE DecimalDigits(DivTen(u).q) \o ToString(DivTen(u).r)
Decimal(u) == IF u = Usize(0) THEN "0" ELSE DecimalDigits(u)

\* Serialize this layout action into an easy-to-parse string representation.
serialize(a) ==
    CASE a.kind = "MoveAbsolute" ->
            "m " \o Fixed4(a.pos[1]) \o " " \o Fixed4(a.pos[2])
      [] a.kind = "SetFont" ->
            "f " \o Decimal(a.font[1]) \o " " \o Shortest(a.font[2])
      [] a.kind = "WriteText" ->
            "w " \o a.text
      [] OTHER ->
            "b " \o Shortest(a.pos[1]) \o " " \o Shortest(a.pos[2])
                 \o " " \o Shortest(a.size[1]) \o " " \o Shortest(a.size[2])

(* --------------------------- LayoutActionList -------------------------- *)

\* (std::usize::MAX, Size::zero())
SentinelFont == <<UsizeMax, 0>>

\* new that takes the first font of the table for active
new_first_font_active ==
    [origin |-> Zero, actions |-> <<>>, active_font |-> <<Usize(0), 12>>,
     next_pos |-> None, next_font |-> None]

\* LayoutActionList::new()
new ==
    [origin |-> Zero, actions |-> <<>>, active_font |-> SentinelFont,
     next_pos |-> None, next_font |-> None]

\* flush_position that reads the cached move without taking it
flush_position_keeps(s) ==
    IF s.next_pos # None
    THEN [s EXCEPT !.actions = Append(@, MoveAbsolute(s.next_pos[1]))]
    ELSE s

\* flush_position that overwrites a move committed last instead of appending
flush_position_overwrites(s) ==
    IF s.next_pos # None
    THEN IF s.actions # <<>> /\ s.actions[Len(s.actions)].kind = "MoveAbsolute"
         THEN [s EXCEPT !.actions[Len(s.actions)] = MoveAbsolute(s.next_pos[1]),
                        !.next_pos = None]
         ELSE [s EXCEPT !.actions = Append(@, MoveAbsolute(s.next_pos[1])),
                        !.next_pos = None]
    ELSE s

\* Append a cached move action if one is cached.
flush_position(s) ==
    IF s.next_pos # None
    THEN [s EXCEPT !.actions = Append(@, MoveAbsolute(s.next_pos[1])),
                   !.next_pos = None]
    ELSE s

\* flush_font that does not record the font it commits
flush_font_stale(s) ==
    IF s.next_font # None
    THEN IF s.next_font[1] # s.active_font
         THEN [s EXCEPT !.actions = Append(@, SetFont(s.next_font[1])),
                        !.next_font = None]
         ELSE [s EXCEPT !.next_font = None]
    ELSE s

\* flush_font that does not compare with the active font
flush_font_always(s) ==
    IF s.next_font # None
    THEN [s EXCEPT !.actions = Append(@, SetFont(s.next_font[1])),
                   !.active_font = s.next_font[1],
                   !.next_font = None]
    ELSE s

\* Append a cached font-setting action if one is cached.
flush_font(s) ==
    IF s.next_font # None
    THEN IF s.next_font[1] # s.active_font
         THEN [s EXCEPT !.actions = Append(@, SetFont(s.next_font[1])),
                        !.active_font = s.next_font[1],
                        !.next_font = None]
         ELSE [s EXCEPT !.next_font = None]
    ELSE s

\* add that flushes the font before the position
add_font_first(s, action) ==
    CASE action.kind = "MoveAbsolute" ->
            [s EXCEPT !.next_pos = Some(Plus(s.origin, action.pos))]
      [] action.kind = "DebugBox" ->
            [s EXCEPT !.actions = Append(@, DebugBox(Plus(s.origin, action.pos), action.size))]
      [] action.kind = "SetFont" ->
            [s EXCEPT !.next_font = Some(action.font)]
      [] OTHER ->
            [flush_position(flush_font(s)) EXCEPT !.actions = Append(@, action)]

\* add that commits the move it replaces
add_keeps_moves(s, action) ==
    CASE action.kind = "MoveAbsolute" ->
            [flush_position(s) EXCEPT !.next_pos = Some(Plus(s.origin, action.pos))]
      [] action.kind = "DebugBox" ->
            [s EXCEPT !.actions = Append(@, DebugBox(Plus(s.origin, action.pos), action.size))]
      [] action.kind = "SetFont" ->
            [s EXCEPT !.next_font = Some(action.font)]
      [] OTHER ->
            [flush_font(flush_position(s)) EXCEPT !.actions = Append(@, action)]

\* add that flushes the position before a DebugBox, as before content
add_box_flushes(s, action) ==
    CASE action.kind = "MoveAbsolute" ->
            [s EXCEPT !.next_pos = Some(Plus(s.origin, action.pos))]
      [] action.kind = "DebugBox" ->
            [flush_position(s) EXCEPT
                !.actions = Append(@, DebugBox(Plus(s.origin, action.pos), action.size))]
      [] action.kind = "SetFont" ->
            [s EXCEPT !.next_font = Some(action.font)]
      [] OTHER ->
            [flush_font(flush_position(s)) EXCEPT !.actions = Append(@, action)]

\* add that commits a DebugBox as it is handed in, untranslated
add_box_untranslated(s, action) ==
    CASE action.kind = "MoveAbsolute" ->
            [s EXCEPT !.next_pos = Some(Plus(s.origin, action.pos))]
      [] action.kind = "DebugBox" ->
            [s EXCEPT !.actions = Append(@, action)]
      [] action.kind = "SetFont" ->
            [s EXCEPT !.next_font = Some(action.font)]
      [] OTHER ->
            [flush_font(flush_position(s)) EXCEPT !.actions = Append(@, action)]

\* Add an action to the list.
add(s, action) ==
    CASE action.kind = "MoveAbsolute" ->
            [s EXCEPT !.next_pos = Some(Plus(s.origin, action.pos))]
      [] action.kind = "DebugBox" ->
            [s EXCEPT !.actions = Append(@, DebugBox(Plus(s.origin, action.pos), action.size))]
      [] action.kind = "SetFont" ->
            [s EXCEPT !.next_font = Some(action.font)]
      [] OTHER ->
            [flush_font(flush_position(s)) EXCEPT !.actions = Append(@, action)]

\* extend that adds the actions last to first
RECURSIVE extend_reversed(_, _)
extend_reversed(s, acts) ==
    IF acts = <<>> THEN s
    ELSE extend_reversed(add(s, acts[Len(acts)]), SubSeq(acts, 1, Len(acts) - 1))

\* Add a series of actions.
RECURSIVE extend(_, _)
extend(s, acts) ==
    IF acts = <<>> THEN s ELSE extend(add(s, Head(acts)), Tail(acts))

\* add_layout that rebinds the origin only after the layout's actions
add_layout_late_origin(s, position, layout) ==
    LET flushed == flush_position(s)
        moved   == [flushed EXCEPT !.next_pos = Some(position)]
        boxed   == IF layout.debug_render
                   THEN [moved EXCEPT !.actions = Append(@, DebugBox(position, layout.dimensions))]
                   ELSE moved
    IN [extend(boxed, layout.actions) EXCEPT !.origin = position]

\* add_layout that adds the debug box through add, under the new origin
add_layout_box_by_add(s, position, layout) ==
    LET flushed == flush_position(s)
        moved   == [flushed EXCEPT !.origin = position, !.next_pos = Some(position)]
        boxed   == IF layout.debug_render
                   THEN add(moved, DebugBox(position, layout.dimensions))
                   ELSE moved
    IN extend(boxed, layout.actions)

\* add_layout that restores the caller's origin when the layout is added
add_layout_restores(s, position, layout) ==
    LET flushed == flush_position(s)
        moved   == [flushed EXCEPT !.origin = position, !.next_pos = Some(position)]
        boxed   == IF layout.debug_render
                   THEN [moved EXCEPT !.actions = Append(@, DebugBox(position, layout.dimensions))]
                   ELSE moved
    IN [extend(boxed, layout.actions) EXCEPT !.origin = s.origin]

\* Add a layout at a position.
add_layout(s, position, layout) ==
    LET flushed == flush_position(s)
        moved   == [flushed EXCEPT !.origin = position, !.next_pos = Some(position)]
        boxed   == IF layout.debug_render
                   THEN [moved EXCEPT !.actions = Append(@, DebugBox(position, layout.dimensions))]
                   ELSE moved
    IN extend(boxed, layout.actions)

\* is_empty that also wants nothing pending
is_empty_nothing_pending(s) ==
    s.actions = <<>> /\ s.next_pos = None /\ s.next_font = None

\* Whether there are any actions in this list.
is_empty(s) == s.actions = <<>>

\* into_vec that flushes what is pending before it returns
into_vec_flushing(s) == flush_font(flush_position(s)).actions

\* Return the list of actions as a vector.
into_vec(s) == s.actions

(* ------------------------------- inputs -------------------------------- *)

Positions == {<<10, 10>>, <<20, 10>>}
Dimensions == {<<30, 20>>}
RealFonts == {<<Usize(0), 12>>, <<Usize(1), 12>>}
Fonts == RealFonts \cup {SentinelFont}

Moves == {MoveAbsolute(p) : p \in Positions}

\* What callers add in runs of Spec.
Actions ==
    Moves \cup {SetFont(f) : f \in Fonts} \cup {WriteText("hi")}
       \cup {DebugBox(<<10, 10>>, d) : d \in Dimensions}

\* What callers add in runs of SpecText.
TextActions ==
    Moves \cup {SetFont(f) : f \in RealFonts} \cup {WriteText("hi"), WriteText("there")}

\* What a sub-layout is made of: local positions, one font, the text "x".
LayoutActions ==
    {MoveAbsolute(<<10, 10>>), SetFont(<<Usize(0), 12>>), WriteText("x"),
     DebugBox(<<10, 10>>, <<30, 20>>)}

RECURSIVE SeqsUpTo(_, _)
SeqsUpTo(S, n) ==
    IF n = 0 THEN {<<>>}
    ELSE LET shorter == SeqsUpTo(S, n - 1)
         IN shorter \cup {Append(q, x) : q \in shorter, x \in S}

Layouts ==
    {Layout(acts, d, dbg) : acts \in SeqsUpTo(LayoutActions, MaxLayoutLen),
                            d \in Dimensions, dbg \in BOOLEAN}

\* The series of actions callers hand to extend.
ActionSeries == SeqsUpTo(LayoutActions, MaxLayoutLen)

EmptyLayouts == {Layout(<<>>, d, FALSE) : d \in Dimensions}

(* -------------------------------- state -------------------------------- *)

VARIABLES
    origin,       \* LayoutActionList.origin
    actions,      \* LayoutActionList.actions
    active_font,  \* LayoutActionList.active_font
    next_pos,     \* LayoutActionList.next_pos
    next_font,    \* LayoutActionList.next_font
    consumed,     \* the list has been moved into into_vec
    returned,     \* what into_vec returned
    calls,        \* history: the calls made on the list so far, in order
    pre,          \* history: the list as it was before the last call
    spent,        \* the part of the run's budget used so far
    subject,      \* the LayoutAction handed to serialize
    sink,         \* what serialize has written to its writer
    nested        \* history: the layout last added through a list of its own

vars == <<origin, actions, active_font, next_pos, next_font, consumed, returned, calls, pre, spent,
          subject, sink, nested>>

Self ==
    [origin |-> origin, actions |-> actions, active_font |-> active_font,
     next_pos |-> next_pos, next_font |-> next_font]

NoAction == WriteText("")
NoLayout == Layout(<<>>, Zero, FALSE)

CallAdd(a) == [op |-> "add", action |-> a, position |-> Zero, layout |-> NoLayout]
CallAddLayout(p, l) == [op |-> "add_layout", action |-> NoAction, position |-> p, layout |-> l]
\* an extend call; the series is logged in the place of a layout's actions
CallExtend(acts) ==
    [op |-> "extend", action |-> NoAction, position |-> Zero, layout |-> Layout(acts, Zero, FALSE)]
CallIntoVec == [op |-> "into_vec", action |-> NoAction, position |-> Zero, layout |-> NoLayout]

Becomes(s) ==
    /\ origin' = s.origin
    /\ actions' = s.actions
    /\ active_font' = s.active_font
    /\ next_pos' = s.next_pos
    /\ next_font' = s.next_font

Init ==
    /\ origin = new.origin
    /\ actions = new.actions
    /\ active_font = new.active_font
    /\ next_pos = new.next_pos
    /\ next_font = new.next_font
    /\ consumed = FALSE
    /\ returned = <<>>
    /\ calls = <<>>
    /\ pre = new
    /\ spent = 0
    /\ subject = NoAction
    /\ sink = ""
    /\ nested = None

\* list.add(a), for an action of the set As, within the budget
AddFrom(As, budget) ==
    \E a \in As :
        /\ ~consumed
        /\ spent + 1 <= budget
        /\ spent' = spent + 1
        /\ Becomes(add(Self, a))
        /\ calls' = Append(calls, CallAdd(a))
        /\ pre' = Self
        /\ UNCHANGED <<consumed, returned, subject, sink, nested>>

\* list.extend(acts), for a series of the set Ss, within the budget
ExtendFrom(Ss, budget) ==
    \E acts \in Ss :
        /\ ~consumed
        /\ spent + 1 + Len(acts) <= budget
        /\ spent' = spent + 1 + Len(acts)
        /\ Becomes(extend(Self, acts))
        /\ calls' = Append(calls, CallExtend(acts))
        /\ pre' = Self
        /\ UNCHANGED <<consumed, returned, subject, sink, nested>>

\* list.add_layout(p, l), for a layout of the set Ls, within the budget
AddLayoutFrom(Ls, budget) ==
    \E p \in Positions, l \in Ls :
        /\ ~consumed
        /\ spent + 1 + Len(l.actions) <= budget
        /\ spent' = spent + 1 + Len(l.actions)
        /\ Becomes(add_layout(Self, p, l))
        /\ calls' = Append(calls, CallAddLayout(p, l))
        /\ pre' = Self
        /\ UNCHANGED <<consumed, returned, subject, sink, nested>>

\* list.into_vec(), within the budget
IntoVecWithin(budget) ==
    /\ ~consumed
    /\ spent + 1 <= budget
    /\ spent' = spent + 1
    /\ returned' = into_vec(Self)
    /\ consumed' = TRUE
    /\ calls' = Append(calls, CallIntoVec)
    /\ pre' = Self
    /\ UNCHANGED <<origin, actions, active_font, next_pos, next_font, subject, sink,
                   nested>>

Add == AddFrom(Actions, MaxCost)
AddLayout == AddLayoutFrom(Layouts, MaxCost)
Extend == ExtendFrom(ActionSeries, MaxCost)
IntoVec == IntoVecWithin(MaxCost)

Next == Add \/ Extend \/ AddLayout \/ IntoVec

Spec == Init /\ [][Next]_vars

\* Longer runs over plain text: moves, real fonts and two texts, re-anchored
\* by empty layouts.
AddText == AddFrom(TextActions, MaxRun)
AddEmptyLayout == AddLayoutFrom(EmptyLayouts, MaxRun)
IntoVecText == IntoVecWithin(MaxRun)

NextText == AddText \/ AddEmptyLayout \/ IntoVecText

SpecText == Init /\ [][NextText]_vars

\* Longer runs over fonts: every font and the sentinel, one text, one move,
\* and layouts that set a font and write a text.
FontActions ==
    {SetFont(f) : f \in Fonts} \cup {WriteText("hi"), MoveAbsolute(<<10, 10>>)}

FontLayouts ==
    {Layout(acts, d, FALSE) :
        acts \in SeqsUpTo({SetFont(<<Usize(0), 12>>), WriteText("x")}, MaxLayoutLen),
        d \in Dimensions}

AddFont == AddFrom(FontActions, MaxRun)
AddFontLayout == AddLayoutFrom(FontLayouts, MaxRun)

NextFonts == AddFont \/ AddFontLayout

SpecFonts == Init /\ [][NextFonts]_vars

\* Nested composition: a layout is first added at a position to a list of its
\* own, and what that list returns is added, as a layout without debug flag,
\* to the list at hand.
OuterActions ==
    {SetFont(f) : f \in RealFonts} \cup {WriteText("hi"), MoveAbsolute(<<10, 10>>)}

NestLayouts ==
    {Layout(acts, d, dbg) :
        acts \in SeqsUpTo(LayoutActions \cup {SetFont(SentinelFont)}, MaxLayoutLen),
        d \in Dimensions, dbg \in BOOLEAN}

\* the layout made of what a fresh list returns after add_layout(q, l)
Flattened(q, l) ==
    Layout(into_vec(add_layout(new, q, l)), l.dimensions, FALSE)

AddOuter == AddFrom(OuterActions, MaxRun)

\* inner.add_layout(q, l); list.add_layout(p, Layout { actions: inner.into_vec(), .. })
AddNested ==
    \E p \in Positions, q \in Positions, l \in NestLayouts :
        /\ ~consumed
        /\ nested = None
        /\ spent + 1 + Len(l.actions) <= MaxRun
        /\ spent' = spent + 1 + Len(l.actions)
        /\ Becomes(add_layout(Self, p, Flattened(q, l)))
        /\ calls' = Append(calls, CallAddLayout(p, Flattened(q, l)))
        /\ pre' = Self
        /\ nested' = Some([at |-> Len(calls) + 1, position |-> q, layout |-> l])
        /\ UNCHANGED <<consumed, returned, subject, sink>>

NextNested == AddOuter \/ AddNested

SpecNested == Init /\ [][NextNested]_vars

\* Serializing one action: lengths of 0, 1/32, 3/32, 1/4, 4 and 12 points,
\* and of -3.5 and -1/32 points (origin + position is not clamped).
Lengths == {0, 1, 3, 8, 128, 384, 0 - 112, 0 - 1}

Serializable ==
    {MoveAbsolute(<<x, y>>) : x \in Lengths, y \in Lengths}
       \cup {SetFont(<<i, z>>) : i \in {Usize(0), Usize(3), UsizeMax}, z \in Lengths}
       \cup {WriteText(t) : t \in {"hi", "x y"}}
       \cup {DebugBox(<<x, y>>, <<w, h>>) : x \in {0, 0 - 112}, y \in {128, 1},
                                            w \in {0, 3, 8, 384}, h \in {8, 384}}

InitSerialize ==
    /\ origin = new.origin
    /\ actions = new.actions
    /\ active_font = new.active_font
    /\ next_pos = new.next_pos
    /\ next_font = new.next_font
    /\ consumed = FALSE
    /\ returned = <<>>
    /\ calls = <<>>
    /\ pre = new
    /\ spent = 0
    /\ subject \in Serializable
    /\ sink = ""
    /\ nested = None

\* subject.serialize(&mut sink)
Serialize ==
    /\ sink = ""
    /\ sink' = serialize(subject)
    /\ UNCHANGED <<origin, actions, active_font, next_pos, next_font, consumed,
                   returned, calls, pre, spent, subject, nested>>

NextSerialize == Serialize

SpecSerialize == InitSerialize /\ [][NextSerialize]_vars

TypeOK ==
    /\ consumed \in BOOLEAN
    /\ Len(next_pos) <= 1
    /\ Len(next_font) <= 1
    /\ spent \in 0..(IF MaxCost > MaxRun THEN MaxCost ELSE MaxRun)

(* --------------------------- claim vocabulary -------------------------- *)

LastCall == calls[Len(calls)]

LastIsAdd(kind) ==
    /\ calls # <<>>
    /\ LastCall.op = "add"
    /\ LastCall.action.kind = kind

LastIsAddLayout == calls # <<>> /\ LastCall.op = "add_layout"

\* every call so far was an add
AddsOnly(cs) == \A i \in 1..Len(cs) : cs[i].op = "add"

\* what a flush of the list s commits: its pending move, then its pending
\* font unless that is the active one
MoveIfPending(s) ==
    IF s.next_pos # None THEN <<MoveAbsolute(s.next_pos[1])>> ELSE <<>>
FontIfChanged(s) ==
    IF s.next_font # None /\ s.next_font[1] # s.active_font
    THEN <<SetFont(s.next_font[1])>> ELSE <<>>

RECURSIVE OfKinds(_, _)
OfKinds(stream, kinds) ==
    IF stream = <<>> THEN <<>>
    ELSE IF Head(stream).kind \in kinds
         THEN <<Head(stream)>> \o OfKinds(Tail(stream), kinds)
         ELSE OfKinds(Tail(stream), kinds)

(* ------------------------------- C1 ------------------------------------ *)

\* an action as the unoptimized stream emits it under the origin o
Translated(a, o) ==
    CASE a.kind = "MoveAbsolute" -> MoveAbsolute(Plus(o, a.pos))
      [] a.kind = "DebugBox" -> DebugBox(Plus(o, a.pos), a.size)
      [] OTHER -> a

RECURSIVE TranslatedAll(_, _)
TranslatedAll(acts, o) ==
    IF acts = <<>> THEN <<>>
    ELSE <<Translated(Head(acts), o)>> \o TranslatedAll(Tail(acts), o)

\* The unoptimized reference stream of the calls cs, made from the origin o:
\* every action emitted at once; add_layout(P, L) emits Move(P), the
\* optional DebugBox, then L's actions under the origin P.
RECURSIVE Reference(_, _)
Reference(cs, o) ==
    IF cs = <<>> THEN <<>>
    ELSE LET c == Head(cs) IN
         CASE c.op = "add" ->
                <<Translated(c.action, o)>> \o Reference(Tail(cs), o)
           [] c.op = "add_layout" ->
                <<MoveAbsolute(c.position)>>
                  \o (IF c.layout.debug_render
                      THEN <<DebugBox(c.position, c.layout.dimensions)>> ELSE <<>>)
                  \o TranslatedAll(c.layout.actions, c.position)
                  \o Reference(Tail(cs), c.position)
           [] c.op = "extend" ->
                TranslatedAll(c.layout.actions, o) \o Reference(Tail(cs), o)
           [] OTHER -> Reference(Tail(cs), o)

\* What a renderer shows of a stream: its texts in order, each with the
\* position of the most recent move before it, the number of texts written
\* since that move, and the most recent font before it.
RECURSIVE Shown(_, _, _, _)
Shown(stream, move, since, font) ==
    IF stream = <<>> THEN <<>>
    ELSE LET a == Head(stream) IN
         CASE a.kind = "MoveAbsolute" -> Shown(Tail(stream), Some(a.pos), 0, font)
           [] a.kind = "SetFont" -> Shown(Tail(stream), move, since, Some(a.font))
           [] a.kind = "WriteText" ->
                <<[text |-> a.text, move |-> move, since |-> since, font |-> font]>>
                  \o Shown(Tail(stream), move, since + 1, font)
           [] OTHER -> Shown(Tail(stream), move, since, font)

Visible(stream) == Shown(stream, None, 0, None)

\* no SetFont supplied so far, directly or inside a layout, names the sentinel
RECURSIVE NoSentinel(_)
NoSentinel(acts) ==
    acts = <<>> \/ (Head(acts) # SetFont(SentinelFont) /\ NoSentinel(Tail(acts)))

SentinelFree(cs) ==
    \A i \in 1..Len(cs) :
        /\ cs[i].op = "add" => cs[i].action # SetFont(SentinelFont)
        /\ NoSentinel(cs[i].layout.actions)

\* C1: optimization does not alter visible output. For every run of add and
\* add_layout calls on a fresh list that never supplies the sentinel font,
\* the committed actions and the unoptimized reference stream show the same
\* texts in the same order, each under the same most recent move (the same
\* number of texts after it) and the same most recent font.
C1_OptimizationKeepsOutput ==
    SentinelFree(calls) => Visible(actions) = Visible(Reference(calls, Zero))

\* C1 witness: a sentinel-free run with a composed layout and two texts whose
\* committed stream is shorter than the reference stream.
C1_Witness ==
    /\ SentinelFree(calls)
    /\ \E i \in 1..Len(calls) : calls[i].op = "add_layout"
    /\ Len(Visible(actions)) >= 2
    /\ Len(actions) < Len(Reference(calls, Zero))

(* ------------------------------- C2 ------------------------------------ *)

ExampleCalls ==
    <<CallAdd(MoveAbsolute(<<10, 10>>)), CallAdd(SetFont(<<Usize(0), 12>>)),
      CallAdd(WriteText("hi")), CallAdd(MoveAbsolute(<<20, 10>>)),
      CallAdd(WriteText("there"))>>

ExampleCommitted ==
    <<MoveAbsolute(<<10, 10>>), SetFont(<<Usize(0), 12>>), WriteText("hi"),
      MoveAbsolute(<<20, 10>>), WriteText("there")>>

\* C2: adding WriteText(t) commits, in this order and nothing else, the
\* pending move if there is one, the pending font if there is one and it is
\* not the active font (which it then becomes), and WriteText(t); afterwards
\* no move and no font is pending. The run Move(10,10), SetFont(0,12),
\* WriteText("hi"), Move(20,10), WriteText("there") on a fresh list commits
\* exactly those five actions.
C2_WriteTextFlushes ==
    /\ LastIsAdd("WriteText") =>
          /\ actions = pre.actions \o MoveIfPending(pre) \o FontIfChanged(pre)
                          \o <<LastCall.action>>
          /\ next_pos = None
          /\ next_font = None
          /\ active_font = (IF pre.next_font # None THEN pre.next_font[1]
                            ELSE pre.active_font)
    /\ calls = ExampleCalls => actions = ExampleCommitted

\* C2 witness: the example run has been made, and its last text was written
\* with a move pending and no font pending.
C2_Witness ==
    /\ calls = ExampleCalls
    /\ actions = ExampleCommitted
    /\ pre.next_pos # None
    /\ pre.next_font = None


(* ------------------------------- C3 ------------------------------------ *)

\* The moves a run of adds commits: at each WriteText the last move added
\* since the previous WriteText, if there was one.
RECURSIVE LastMoves(_, _)
LastMoves(cs, pending) ==
    IF cs = <<>> THEN <<>>
    ELSE LET a == Head(cs).action IN
         CASE a.kind = "MoveAbsolute" -> LastMoves(Tail(cs), <<a>>)
           [] a.kind = "WriteText" -> pending \o LastMoves(Tail(cs), <<>>)
           [] OTHER -> LastMoves(Tail(cs), pending)

\* C3: adding a Move commits nothing and overwrites the pending move with
\* origin + position; in a run of adds, of the moves added between two
\* WriteTexts only the last one is ever committed, by the next WriteText.
C3_MoveCoalescing ==
    /\ LastIsAdd("MoveAbsolute") =>
          /\ actions = pre.actions
          /\ next_pos = Some(Plus(pre.origin, LastCall.action.pos))
    /\ AddsOnly(calls) =>
          OfKinds(actions, {"MoveAbsolute"}) = LastMoves(calls, <<>>)

\* C3 witness: two different moves in a row, then a text; one move committed.
C3_Witness ==
    /\ Len(calls) = 3
    /\ AddsOnly(calls)
    /\ calls[1].action.kind = "MoveAbsolute"
    /\ calls[2].action.kind = "MoveAbsolute"
    /\ calls[1].action # calls[2].action
    /\ calls[3].action.kind = "WriteText"
    /\ OfKinds(actions, {"MoveAbsolute"}) = <<calls[2].action>>

(* ------------------------------- C4 ------------------------------------ *)

\* The fonts a run commits: at each WriteText the last font added since the
\* previous WriteText, unless it is the font committed last (at first: the
\* sentinel).
RECURSIVE LastFonts(_, _, _)
LastFonts(cs, pending, active) ==
    IF cs = <<>> THEN <<>>
    ELSE LET c == Head(cs) IN
         CASE c.op = "add" /\ c.action.kind = "SetFont" ->
                LastFonts(Tail(cs), <<c.action.font>>, active)
           [] c.op = "add" /\ c.action.kind = "WriteText" ->
                IF pending # <<>> /\ pending[1] # active
                THEN <<SetFont(pending[1])>> \o LastFonts(Tail(cs), <<>>, pending[1])
                ELSE LastFonts(Tail(cs), <<>>, active)
           [] OTHER -> LastFonts(Tail(cs), pending, active)

\* the fonts named by the SetFont adds of the calls cs
FontsAdded(cs) ==
    {cs[i].action.font : i \in {j \in 1..Len(cs) :
                                  cs[j].op = "add" /\ cs[j].action.kind = "SetFont"}}

\* C4: adding a SetFont commits nothing and overwrites the pending font; of
\* the fonts added between two WriteTexts only the last one is considered at
\* the flush, and it is committed only if it differs from the active font;
\* so a run that keeps adding one and the same font commits at most one
\* SetFont.
C4_FontCoalescing ==
    /\ LastIsAdd("SetFont") =>
          /\ actions = pre.actions
          /\ next_font = Some(LastCall.action.font)
          /\ active_font = pre.active_font
    /\ OfKinds(actions, {"SetFont"}) = LastFonts(calls, <<>>, SentinelFont)
    /\ Cardinality(FontsAdded(calls)) <= 1 => Len(OfKinds(actions, {"SetFont"})) <= 1

\* C4 witness: a font is added and flushed by a text, then added twice in a
\* row and flushed by a second text; one SetFont is committed.
C4_Witness ==
    /\ Len(calls) = 5
    /\ AddsOnly(calls)
    /\ calls[1].action.kind = "SetFont"
    /\ calls[2].action.kind = "WriteText"
    /\ calls[3] = calls[1]
    /\ calls[4] = calls[1]
    /\ calls[5].action.kind = "WriteText"
    /\ OfKinds(actions, {"SetFont"}) = <<calls[1].action>>
    /\ Len(actions) = 3

(* ------------------------------- C5 ------------------------------------ *)

\* C5: adding DebugBox(p, s) appends exactly DebugBox(origin + p, s) to the
\* committed sequence and leaves the pending move, the pending font, the
\* active font and the origin alone; a WriteText added next flushes exactly
\* the move and font that were pending before the DebugBox.
C5_DebugBoxFrame ==
    LastIsAdd("DebugBox") =>
        /\ actions = Append(pre.actions,
                            DebugBox(Plus(pre.origin, LastCall.action.pos),
                                     LastCall.action.size))
        /\ next_pos = pre.next_pos
        /\ next_font = pre.next_font
        /\ active_font = pre.active_font
        /\ origin = pre.origin
        /\ \A t \in {"hi", "there"} :
              add(Self, WriteText(t)).actions =
                 actions \o MoveIfPending(pre) \o FontIfChanged(pre) \o <<WriteText(t)>>

\* C5 witness: a DebugBox added under a moved origin while a move and a new
\* font are pending.
C5_Witness ==
    /\ LastIsAdd("DebugBox")
    /\ pre.origin # Zero
    /\ pre.next_pos # None
    /\ pre.next_font # None
    /\ pre.next_font[1] # pre.active_font
    /\ actions[Len(actions)].pos = Plus(pre.origin, LastCall.action.pos)

(* ------------------------------- C6 ------------------------------------ *)

\* the last call composed a layout whose actions are a move, then a text
ComposedMoveText ==
    /\ LastIsAddLayout
    /\ Len(LastCall.layout.actions) = 2
    /\ LastCall.layout.actions[1].kind = "MoveAbsolute"
    /\ LastCall.layout.actions[2].kind = "WriteText"

\* the committed move a composed Move(dx, dy) must end up as
ComposedMove ==
    MoveAbsolute(Plus(LastCall.position, LastCall.layout.actions[1].pos))

\* C6 as stated: composing at P a layout Move(dx, dy), WriteText("x") in any
\* reachable state yields, after finalize, a committed Move(P.x+dx, P.y+dy)
\* immediately before that WriteText.
C6_MoveImmediatelyBeforeText ==
    ComposedMoveText =>
        LET out == into_vec(Self) IN
        /\ Len(out) >= 2
        /\ out[Len(out)] = LastCall.layout.actions[2]
        /\ out[Len(out) - 1] = ComposedMove

\* C6 amended: composing at P a layout Move(dx, dy), WriteText("x") in any
\* reachable state yields, after finalize, a committed Move(P.x+dx, P.y+dy)
\* before that WriteText with nothing between them except the SetFont of a
\* font that was pending before the call and is not the active font.
C6_MoveBeforeFontBeforeText ==
    ComposedMoveText =>
        LET out  == into_vec(Self)
            tail == <<ComposedMove>> \o FontIfChanged(pre) \o <<LastCall.layout.actions[2]>>
        IN /\ Len(out) >= Len(tail)
           /\ SubSeq(out, Len(out) - Len(tail) + 1, Len(out)) = tail

\* C6 witness: such a layout composed while a new font is pending, so that a
\* SetFont lies between the move and the text.
C6_Witness ==
    /\ ComposedMoveText
    /\ FontIfChanged(pre) # <<>>
    /\ actions[Len(actions) - 2] = ComposedMove
    /\ actions[Len(actions) - 1].kind = "SetFont"

(* ------------------------------- C7 ------------------------------------ *)

\* the list after steps (1) to (3) of add_layout(position, layout) on s
Anchored(s, position, layout) ==
    [origin |-> position,
     actions |-> s.actions \o MoveIfPending(s)
                   \o (IF layout.debug_render
                       THEN <<DebugBox(position, layout.dimensions)>> ELSE <<>>),
     active_font |-> s.active_font,
     next_pos |-> Some(position),
     next_font |-> s.next_font]

\* the list s after the actions acts were added to it one by one
RECURSIVE AddedOneByOne(_, _)
AddedOneByOne(s, acts) ==
    IF acts = <<>> THEN s
    ELSE AddedOneByOne(add(s, Head(acts)), Tail(acts))

\* C7: add_layout(position, layout) commits the pending move with the value
\* cached earlier and clears it, then makes position the origin and the
\* pending move, then commits DebugBox(position, dimensions) if the debug
\* flag is set, then adds the layout's actions one by one, so that a Move(p)
\* in it caches position + p. With an empty layout and no debug flag the
\* call ends with origin and pending move at position and at most one new
\* committed action, the old pending move.
C7_ComposeOrder ==
    LastIsAddLayout =>
        LET P == LastCall.position
            L == LastCall.layout
            n == Len(L.actions)
        IN /\ Self = AddedOneByOne(Anchored(pre, P, L), L.actions)
           /\ SubSeq(actions, 1, Len(Anchored(pre, P, L).actions)) = Anchored(pre, P, L).actions
           /\ origin = P
           /\ (n > 0 /\ L.actions[n].kind = "MoveAbsolute") =>
                 next_pos = Some(Plus(P, L.actions[n].pos))
           /\ (n = 0 /\ ~L.debug_render) =>
                 /\ next_pos = Some(P)
                 /\ actions = pre.actions \o MoveIfPending(pre)
                 /\ next_font = pre.next_font
                 /\ active_font = pre.active_font

\* C7 witness: a layout with the debug flag and a trailing move composed
\* under a moved origin while a move is pending.
C7_Witness ==
    /\ LastIsAddLayout
    /\ pre.origin # Zero
    /\ pre.next_pos # None
    /\ pre.next_pos # Some(pre.origin)
    /\ LastCall.layout.debug_render
    /\ LastCall.layout.actions # <<>>
    /\ LastCall.layout.actions[Len(LastCall.layout.actions)].kind = "MoveAbsolute"
    /\ actions = pre.actions \o MoveIfPending(pre)
                   \o <<DebugBox(LastCall.position, LastCall.layout.dimensions)>>

(* ------------------------------- C8 ------------------------------------ *)

\* the position of the last add_layout among the calls cs, zero if none
RECURSIVE Anchor(_)
Anchor(cs) ==
    IF cs = <<>> THEN Zero
    ELSE IF cs[Len(cs)].op = "add_layout" THEN cs[Len(cs)].position
         ELSE Anchor(SubSeq(cs, 1, Len(cs) - 1))

\* C8: the origin is zero on a fresh list and changes only in add_layout;
\* after add_layout(P, L) every add of Move(p) caches P + p and every add of
\* DebugBox(p, s) commits DebugBox(P + p, s), whatever is added in between,
\* until the next add_layout; an earlier origin is never restored.
C8_SingleFrame ==
    /\ origin = Anchor(calls)
    /\ (calls # <<>> /\ ~LastIsAddLayout) => origin = pre.origin
    /\ LastIsAdd("MoveAbsolute") =>
          next_pos = Some(Plus(Anchor(calls), LastCall.action.pos))
    /\ LastIsAdd("DebugBox") =>
          actions[Len(actions)] =
             DebugBox(Plus(Anchor(calls), LastCall.action.pos), LastCall.action.size)

\* C8 witness: two layouts composed at different positions, another add, and
\* then a move, which is cached relative to the second position.
C8_Witness ==
    /\ Len(calls) = 4
    /\ calls[1].op = "add_layout"
    /\ calls[2].op = "add_layout"
    /\ calls[1].position # calls[2].position
    /\ calls[3].op = "add"
    /\ LastIsAdd("MoveAbsolute")
    /\ next_pos = Some(Plus(calls[2].position, LastCall.action.pos))

(* ------------------------------- C9 ------------------------------------ *)

\* the calls cs supplied a WriteText or a DebugBox: by an add, inside a
\* layout, or through a layout's debug flag
SuppliedContent(cs) ==
    \E i \in 1..Len(cs) :
        \/ cs[i].op = "add" /\ cs[i].action.kind \in {"WriteText", "DebugBox"}
        \/ cs[i].op = "add_layout" /\ cs[i].layout.debug_render
        \/ \E j \in 1..Len(cs[i].layout.actions) :
              cs[i].layout.actions[j].kind \in {"WriteText", "DebugBox"}

\* every call so far was an add of a Move or a SetFont
OnlyMovesAndFonts(cs) ==
    \A i \in 1..Len(cs) :
        cs[i].op = "add" /\ cs[i].action.kind \in {"MoveAbsolute", "SetFont"}

\* C9: is_empty() is true iff nothing is committed: while it is true no
\* WriteText and no DebugBox has been supplied and committed, and a run of
\* Move and SetFont adds on a fresh list leaves it true.
C9_IsEmpty ==
    /\ is_empty(Self) <=> Len(actions) = 0
    /\ is_empty(Self) => ~SuppliedContent(calls)
    /\ OnlyMovesAndFonts(calls) => is_empty(Self)

\* C9 witness: a move and a font are pending after three adds and the list
\* is still empty.
C9_Witness ==
    /\ Len(calls) >= 3
    /\ OnlyMovesAndFonts(calls)
    /\ next_pos # None
    /\ next_font # None
    /\ is_empty(Self)

(* ------------------------------- C10 ----------------------------------- *)

\* C10: into_vec returns the committed sequence as it stands, in order and
\* without flushing: nothing pending is added to it, so what a list built by
\* adds alone returns never ends with a Move or a SetFont.
C10_IntoVecDoesNotFlush ==
    consumed =>
        /\ returned = pre.actions
        /\ returned = actions
        /\ AddsOnly(SubSeq(calls, 1, Len(calls) - 1)) =>
              \/ returned = <<>>
              \/ returned[Len(returned)].kind \notin {"MoveAbsolute", "SetFont"}

\* C10 witness: a list built by adds is finalized while a move and a font
\* are pending; neither is in what is returned.
C10_Witness ==
    /\ consumed
    /\ AddsOnly(SubSeq(calls, 1, Len(calls) - 1))
    /\ pre.next_pos # None
    /\ pre.next_font # None
    /\ pre.next_font[1] # pre.active_font
    /\ returned # <<>>
    /\ returned = pre.actions

(* ------------------------------- C11 ----------------------------------- *)

\* what the compact encoding of the action a is to be: position and size
\* fields with exactly four decimal digits, the font size unrounded
FourDecimalEncoding(a) ==
    CASE a.kind = "MoveAbsolute" ->
            "m " \o Fixed4(a.pos[1]) \o " " \o Fixed4(a.pos[2])
      [] a.kind = "DebugBox" ->
            "b " \o Fixed4(a.pos[1]) \o " " \o Fixed4(a.pos[2])
                 \o " " \o Fixed4(a.size[1]) \o " " \o Fixed4(a.size[2])
      [] a.kind = "SetFont" ->
            "f " \o Decimal(a.font[1]) \o " " \o Shortest(a.font[2])
      [] OTHER -> "w " \o a.text

\* C11: the compact encoder writes every position and size field of a Move
\* (m x y) and of a DebugBox (b x y w h) in points with exactly four decimal
\* digits, so that Move(3.5, 4.0) is written as "m 3.5000 4.0000"; SetFont
\* is written as f, the index and the unrounded size, WriteText as w and the
\* raw text.
C11_FourDecimalFields ==
    sink # "" =>
        /\ sink = FourDecimalEncoding(subject)
        /\ subject = MoveAbsolute(<<112, 128>>) => sink = "m 3.5000 4.0000"


(* ------------------------------- C12 ----------------------------------- *)

\* the committed action at index i is followed, after at most one SetFont,
\* by a WriteText
TextFollows(i) ==
    /\ i + 1 <= Len(actions)
    /\ \/ actions[i + 1].kind = "WriteText"
       \/ /\ actions[i + 1].kind = "SetFont"
          /\ i + 2 <= Len(actions)
          /\ actions[i + 2].kind = "WriteText"

\* C12: configuration actions are flushed only when content is written. In
\* every run of add, extend and add_layout a Move or SetFont is committed
\* only by a call that appends a WriteText, so every committed Move or
\* SetFont is followed, after at most one SetFont, by that WriteText.
C12_FlushedOnlyWithContent ==
    /\ \A i \in 1..Len(actions) :
          actions[i].kind \in {"MoveAbsolute", "SetFont"} => TextFollows(i)
    /\ OfKinds(SubSeq(actions, Len(pre.actions) + 1, Len(actions)),
               {"MoveAbsolute", "SetFont"}) # <<>>
          => OfKinds(SubSeq(actions, Len(pre.actions) + 1, Len(actions)),
                     {"WriteText"}) # <<>>


(* ------------------------------- C13 ----------------------------------- *)

\* Every WriteText of the stream is reached with at most one Move and at
\* most one SetFont committed since the WriteText before it (or the start);
\* moves and fonts count those seen since then.
RECURSIVE OncePerPeriod(_, _, _)
OncePerPeriod(stream, moves, fonts) ==
    IF stream = <<>> THEN TRUE
    ELSE LET a == Head(stream) IN
         CASE a.kind = "MoveAbsolute" -> OncePerPeriod(Tail(stream), moves + 1, fonts)
           [] a.kind = "SetFont" -> OncePerPeriod(Tail(stream), moves, fonts + 1)
           [] a.kind = "WriteText" ->
                moves <= 1 /\ fonts <= 1 /\ OncePerPeriod(Tail(stream), 0, 0)
           [] OTHER -> OncePerPeriod(Tail(stream), moves, fonts)

\* C13: at most one commit per dirty period. In the committed sequence of
\* any run of add and add_layout there is at most one Move and at most one
\* SetFont between two consecutive WriteTexts, and before the first one.
C13_OncePerDirtyPeriod == OncePerPeriod(actions, 0, 0)


(* ------------------------------- C14 ----------------------------------- *)

CommittedFonts == OfKinds(actions, {"SetFont"})

\* C14: no redundant font-set is ever committed. Any two SetFonts that
\* follow each other among the committed SetFonts (other kinds of action may
\* lie between them) name different fonts, also when they come from the
\* actions of a composed layout.
C14_NoRedundantSetFont ==
    \A i \in 1..(Len(CommittedFonts) - 1) : CommittedFonts[i] # CommittedFonts[i + 1]

\* C14 witness: a font is committed, then a layout that sets another font
\* and writes a text is composed; two different SetFonts are committed.
C14_Witness ==
    /\ LastIsAddLayout
    /\ LastCall.layout.actions # <<>>
    /\ LastCall.layout.actions[1].kind = "SetFont"
    /\ Len(OfKinds(pre.actions, {"SetFont"})) = 1
    /\ Len(CommittedFonts) = 2
    /\ CommittedFonts[2] = LastCall.layout.actions[1]


(* ------------------------------- C15 ----------------------------------- *)

\* the last two calls added SetFont(f) and then a WriteText, on a list on
\* which no SetFont had been committed
FirstFontThenText ==
    /\ Len(calls) >= 2
    /\ LastIsAdd("WriteText")
    /\ calls[Len(calls) - 1].op = "add"
    /\ calls[Len(calls) - 1].action.kind = "SetFont"
    /\ OfKinds(pre.actions, {"SetFont"}) = <<>>

\* the SetFont added by the call before the last is committed immediately
\* before the WriteText the last call added
FontCommittedBeforeText ==
    /\ Len(actions) >= 2
    /\ actions[Len(actions)] = LastCall.action
    /\ actions[Len(actions) - 1] = calls[Len(calls) - 1].action

\* C15 as stated: on a list on which no SetFont has been committed, for
\* every (index, size) that can be added, add(SetFont(index, size)) followed
\* by add(WriteText(t)) commits that SetFont immediately before the text.
C15_FirstFontNeverDropped ==
    FirstFontThenText => FontCommittedBeforeText

\* C15 amended: the same for every (index, size) except the sentinel
\* (usize::MAX, zero), which is taken for the active font and dropped.
C15_FirstRealFontNeverDropped ==
    /\ (FirstFontThenText /\ calls[Len(calls) - 1].action.font # SentinelFont)
          => FontCommittedBeforeText
    /\ (FirstFontThenText /\ calls[Len(calls) - 1].action.font = SentinelFont)
          => actions = pre.actions \o MoveIfPending(pre) \o <<LastCall.action>>

\* C15 witness: a first real font, added after a move, is committed between
\* that move and the text.
C15_Witness ==
    /\ FirstFontThenText
    /\ calls[Len(calls) - 1].action.font \in RealFonts
    /\ pre.next_pos # None
    /\ FontCommittedBeforeText
    /\ actions[Len(actions) - 2].kind = "MoveAbsolute"


(* ------------------------------- C16 ----------------------------------- *)

\* the sequence p is a prefix of the sequence q
IsPrefix(p, q) == Len(p) <= Len(q) /\ SubSeq(q, 1, Len(p)) = p

\* C16: the committed sequence is append-only. Every add, extend and
\* add_layout leaves the committed sequence it found as a prefix of the one
\* it leaves behind: nothing committed is removed, replaced or reordered.
C16_AppendOnly == [][IsPrefix(actions, actions')]_vars

\* C16 witness: a call has committed two or more actions behind a committed
\* sequence that was not empty.
C16_Witness ==
    /\ calls # <<>>
    /\ pre.actions # <<>>
    /\ Len(actions) >= Len(pre.actions) + 2
    /\ IsPrefix(pre.actions, actions)


(* ------------------------------- C17 ----------------------------------- *)

Content == {"WriteText", "DebugBox"}

\* C17: content order is preserved. The WriteTexts and DebugBoxes of the
\* committed sequence are, one by one and in the same order, the WriteTexts
\* and DebugBoxes that were supplied (directly, inside layouts, or by a
\* layout's debug flag), each DebugBox translated by the origin in force when
\* it was supplied; none is dropped, duplicated or swapped, although a
\* DebugBox is committed ahead of a Move or SetFont added before it.
C17_ContentOrder ==
    OfKinds(actions, Content) = OfKinds(Reference(calls, Zero), Content)

\* C17 witness: under a moved origin a move is added, then a DebugBox, then
\* a text: the box is committed ahead of the move, before the text.
C17_Witness ==
    /\ Len(calls) = 4
    /\ calls[1].op = "add_layout"
    /\ calls[2] = CallAdd(MoveAbsolute(<<20, 10>>))
    /\ calls[3].op = "add" /\ calls[3].action.kind = "DebugBox"
    /\ LastIsAdd("WriteText")
    /\ Len(actions) = 3
    /\ actions[1] = DebugBox(Plus(calls[1].position, calls[3].action.pos), calls[3].action.size)
    /\ actions[2] = MoveAbsolute(Plus(calls[1].position, <<20, 10>>))
    /\ actions[3] = LastCall.action


(* ------------------------------- C18 ----------------------------------- *)

\* the last call added a layout that had been flattened by a list of its own
JustNested == nested # None /\ nested[1].at = Len(calls)

\* the list as add_layout(P + Q, L) would have left it, P the position of
\* the last call, Q and L the position and layout of the inner list
AddedDirectly ==
    add_layout(pre, Plus(LastCall.position, nested[1].position), nested[1].layout)

\* C18: hierarchical flattening composes. For positions P and Q, a layout L
\* that never sets the sentinel font and any list, adding at P the layout
\* made of what a fresh list returns after add_layout(Q, L) commits exactly
\* the actions that add_layout(P + Q, L) commits: every Move and DebugBox of
\* L ends up at P + Q + its local position.
C18_FlatteningComposes ==
    (JustNested /\ NoSentinel(nested[1].layout.actions)) =>
        actions = AddedDirectly.actions

\* C18 witness: a layout with a move, a text and the debug flag is nested
\* into a list with a pending move and a pending new font; move and box are
\* committed at P + Q + their local positions.
C18_Witness ==
    /\ JustNested
    /\ pre.next_pos # None
    /\ FontIfChanged(pre) # <<>>
    /\ nested[1].layout.debug_render
    /\ nested[1].layout.actions = <<MoveAbsolute(<<10, 10>>), WriteText("x")>>
    /\ actions = pre.actions \o MoveIfPending(pre)
          \o <<DebugBox(Plus(LastCall.position, nested[1].position), nested[1].layout.dimensions),
               MoveAbsolute(Plus(Plus(LastCall.position, nested[1].position), <<10, 10>>))>>
          \o FontIfChanged(pre) \o <<WriteText("x")>>


(* ------------------------------- C19 ----------------------------------- *)

\* every call so far was an add or an extend
NoLayoutAdded(cs) == \A i \in 1..Len(cs) : cs[i].op \in {"add", "extend"}

\* what a fresh list returns after extend(acts)
Optimized(acts) == into_vec(extend(new, acts))

\* C19: the optimization is idempotent on its own output. If C is what a
\* fresh list returns after the actions S were added to it (by add and
\* extend, no add_layout), a fresh list returns C after extend(C).
C19_Idempotent ==
    NoLayoutAdded(calls) => Optimized(into_vec(Self)) = into_vec(Self)

\* C19 witness: four actions were added, the list has dropped some of them
\* and kept a move, a font and a text, and extending a fresh list by what it
\* holds gives the same again.
C19_Witness ==
    /\ AddsOnly(calls)
    /\ Len(calls) = 4
    /\ Len(actions) = 3
    /\ OfKinds(actions, {"MoveAbsolute"}) # <<>>
    /\ OfKinds(actions, {"SetFont"}) # <<>>
    /\ Optimized(into_vec(Self)) = actions


(* ------------------------------- C20 ----------------------------------- *)

\* the font of the last SetFont of a stream, the sentinel if it has none
LastFontOf(stream) ==
    IF OfKinds(stream, {"SetFont"}) = <<>> THEN SentinelFont
    ELSE LET fs == OfKinds(stream, {"SetFont"}) IN fs[Len(fs)].font

\* what the last call committed
CommittedByLastCall == SubSeq(actions, Len(pre.actions) + 1, Len(actions))

\* C20: active_font tracks the committed stream. In every state reached by
\* add, extend and add_layout, active_font is the font of the last SetFont
\* of the committed sequence, or the sentinel (usize::MAX, zero) if the
\* committed sequence has no SetFont; and a call that leaves active_font
\* different from what it found has committed a SetFont.
C20_ActiveFontTracksCommitted ==
    /\ active_font = LastFontOf(actions)
    /\ (calls # <<>> /\ active_font # pre.active_font) =>
           OfKinds(CommittedByLastCall, {"SetFont"}) # <<>>

\* C20 witness: a second SetFont was just committed, replacing a real active
\* font by another one.
C20_Witness ==
    /\ calls # <<>>
    /\ LastCall.op \in {"add", "extend", "add_layout"}
    /\ Len(OfKinds(actions, {"SetFont"})) = 2
    /\ pre.active_font # SentinelFont
    /\ active_font # pre.active_font
    /\ active_font = LastFontOf(CommittedByLastCall)

====
